---- MODULE Spec2Model ----
(***************************************************************************)
(* Small-step model of the parens evaluator: BasicAnalyzer, the parsers of *)
(* the special forms def, go and quote, the Expr nodes of expr.go and the  *)
(* Env they run against.  Every goroutine is a thread with its own Go call *)
(* stack (task); a step executes the code of the topmost activation up to  *)
(* its next call, return or access to shared state.                        *)
(***************************************************************************)
EXTENDS Integers, Sequences, FiniteSets, TLC

\* ------------------------------------------------------------------ bounds
MaxDepth == 2      \* env.maxDepth used by the model (withDefaults: 10000)
MaxHost  == 10     \* Go call-stack activations a goroutine may hold
MaxForks == 2      \* goroutines that go-forms may spawn

Threads == 0 .. MaxForks          \* thread 0 is the host's goroutine
Envs    == 0 .. MaxForks          \* env 0 is the root Env; env i is a fork
Stores  == 0 .. MaxForks          \* ConcurrentMap instances used as globals

\* ------------------------------------------------------------------ values
\* value.Any.  GoNil is the untyped nil interface (no value at all); NilV is
\* value.Nil{}.
GoNil   == [k |-> "GoNil", n |-> 0, s |-> "", l |-> <<>>]
NilV    == [k |-> "Nil",   n |-> 0, s |-> "", l |-> <<>>]
Int64(n) == [k |-> "Int", n |-> n, s |-> "", l |-> <<>>]
Sym(s)  == [k |-> "Sym",   n |-> 0, s |-> s,  l |-> <<>>]
Fn(s)   == [k |-> "Fn",    n |-> 0, s |-> s,  l |-> <<>>]
List(l) == [k |-> "List",  n |-> 0, s |-> "", l |-> l]
Bool(b) == [k |-> "Bool",  n |-> IF b THEN 1 ELSE 0, s |-> "", l |-> <<>>]

\* value.IsTruthy: only Nil and boolean false are falsy
IsTruthy(v) == ~(v.k = "Nil" \/ (v.k = "Bool" /\ v.n = 0))

\* Seq capability of a list: First() is the nil absence on an empty list.
First(l) == IF l = <<>> THEN GoNil ELSE l[1]
Next1(l) == IF l = <<>> THEN <<>> ELSE Tail(l)

\* error causes ("" is the nil error)
NoErr             == ""
ErrNotFound       == "not found"
ErrNotInvokable   == "not invokable"
ErrInvalidDef     == "invalid def form"
ErrGoArg          == "go expt requires exactly one argument"
ErrInvalidBindName == "invalid bind name"
ErrStackDepth     == "stack depth exceeded"

\* ------------------------------------------------------------------- Exprs
E0 == [t |-> "", name |-> "", val |-> GoNil, forms |-> <<>>,
       target |-> <<>>, args |-> <<>>]
ConstExpr(v)  == [E0 EXCEPT !.t = "Const", !.val = v]
QuoteExpr(f)  == [E0 EXCEPT !.t = "Quote", !.val = f]
DefExpr(n, v) == [E0 EXCEPT !.t = "Def", !.name = n, !.val = v]
GoExpr(v)     == [E0 EXCEPT !.t = "Go", !.val = v]
InvokeExpr(n, tg, as) ==
    [E0 EXCEPT !.t = "Invoke", !.name = n, !.target = tg, !.args = as]
IfExpr(test, then, else) ==
    [E0 EXCEPT !.t = "If", !.forms = <<test, then, else>>]
DoExpr(forms) == [E0 EXCEPT !.t = "Do", !.forms = forms]

\* strings.TrimSpace on the binding names the model uses
TrimSpace(s) == CASE s = " "   -> ""
                  [] s = " x " -> "x"
                  [] OTHER     -> s

\* --------------------------------------------------- ConcurrentMap (store)
Load(m, key)     == IF key \in DOMAIN m THEN m[key] ELSE GoNil
Store(m, key, v) == [q \in (DOMAIN m) \cup {key} |->
                        IF q = key THEN v ELSE m[q]]
EmptyMap == [q \in {} |-> GoNil]

\* ------------------------------------------------ host-supplied invokables
\* A value implementing Invokable: Invoke(env, args...) evaluates the body
\* form below against env and returns its result.
FnNames == {"ok", "rec", "setz", "nest", "deep", "bad"}
FnBody(f) ==
    CASE f = "ok"   -> Int64(7)
      [] f = "rec"  -> List(<<Sym("rec")>>)
      [] f = "setz" -> List(<<Sym("def"), Sym("z"), Int64(3)>>)
      [] f = "nest" -> List(<<Sym("ok")>>)
      [] f = "deep" -> List(<<Sym("nest")>>)
      [] OTHER      -> Sym("undef")

InitGlobals == [q \in FnNames |-> Fn(q)]

SpecialForms == {"go", "def", "quote"}

\* -------------------------------------------------- programs the host runs
DefForm(s, v) == List(<<Sym("def"), Sym(s), v>>)
GoForm(f)     == List(<<Sym("go"), f>>)
Call0(f)      == List(<<Sym(f)>>)

PDefThenUse  == <<DefForm("x", Int64(5)), Sym("x")>>
PGoDef       == <<GoForm(DefForm("y", Int64(1))), Sym("y")>>
PRec         == <<Call0("rec")>>
PDeep        == <<Call0("deep"), Int64(5)>>
PGoUndef     == <<GoForm(Sym("undef")), Int64(5)>>
PGoRec       == <<GoForm(Call0("rec")), Call0("nest")>>
PGoBad       == <<GoForm(Call0("bad")), DefForm("x", Int64(5))>>
PRebind      == <<DefForm("x", Int64(1)),
                  List(<<Sym("ok"), DefForm("x", Int64(2)), Sym("x")>>)>>
PBadDef1     == <<List(<<Sym("def"), Int64(1), Int64(5)>>),
                  List(<<Sym("def"), Sym("x")>>)>>
PBadDef2     == <<List(<<Sym("def"), Sym("x"), Int64(1), Int64(2)>>),
                  List(<<Sym("def")>>)>>
PBadDefCall  == <<List(<<Sym("def"), Int64(1), Call0("setz")>>), Sym("z")>>
PDefInCall   == <<Call0("setz"), Sym("z")>>
PNest        == <<Call0("nest")>>
PBadTarget   == <<Call0("bad"), List(<<Int64(5)>>)>>
PBadArg      == <<List(<<Sym("ok"), Call0("bad")>>),
                  List(<<Sym("ok"), Sym("undef")>>)>>
PQuoteGo     == <<List(<<Sym("quote"), Sym("x")>>), List(<<Sym("go")>>),
                  List(<<>>)>>
PTwoGo       == <<GoForm(Call0("nest")), GoForm(DefForm("y", Int64(1)))>>

\* Expr nodes the host builds itself and evaluates with node.Eval(env); a
\* program names them with a Node item.
Node(s) == [k |-> "Node", n |-> 0, s |-> s, l |-> <<>>]
NodeOf(s) ==
    CASE s = "defblank" -> DefExpr(" ", Int64(9))
      [] s = "defpad"   -> DefExpr(" x ", Int64(4))
      [] s = "ifnil"    -> IfExpr(NilV, Int64(1), Int64(2))
      [] s = "ifzero"   -> IfExpr(Int64(0), Int64(1), Int64(2))
      [] s = "iffalse"  -> IfExpr(Bool(FALSE), DefForm("p", Int64(1)),
                                  DefForm("q", Int64(2)))
      [] s = "iftrue"   -> IfExpr(Bool(TRUE), DefForm("p", Int64(1)),
                                  DefForm("q", Int64(2)))
      [] s = "iffail"   -> IfExpr(Sym("undef"), DefForm("p", Int64(1)),
                                  DefForm("q", Int64(2)))
      [] s = "doempty"  -> DoExpr(<<>>)
      [] s = "dothree"  -> DoExpr(<<DefForm("a", Int64(1)),
                                    DefForm("a", Int64(2)), Sym("a")>>)
      [] OTHER          -> DoExpr(<<DefForm("a", Int64(1)), Sym("undef"),
                                    DefForm("b", Int64(2))>>)

PBlankDef    == <<Node("defblank"), Node("defpad"), Sym("x")>>
PIfValues    == <<Node("ifnil"), Node("ifzero")>>
PIfFalse     == <<Node("iffalse")>>
PIfTrue      == <<Node("iftrue")>>
PIfFail      == <<Node("iffail")>>
PDoValues    == <<Node("doempty"), Node("dothree")>>
PGoTwoArgs   == <<List(<<Sym("go"), Int64(5), Int64(6)>>)>>
PNotInvokable == <<List(<<Int64(5), DefForm("a", Int64(1))>>)>>
PArgFail     == <<List(<<Sym("ok"), DefForm("a", Int64(1)), Call0("bad"),
                         DefForm("b", Int64(2))>>)>>
PArgOrder    == <<List(<<Sym("ok"), DefForm("a", Int64(1)),
                         DefForm("a", Int64(2))>>), Sym("a")>>
PArgs        == <<List(<<Sym("ok"), Int64(1), Int64(2)>>)>>
PBadDefCall3 == <<List(<<Sym("def"), Sym("x"), Call0("setz"), Int64(1)>>),
                  Sym("z")>>
PDefCall     == <<DefForm("w", Call0("setz"))>>
PDoFail      == <<Node("dofail")>>

Programs == {PBlankDef, PIfValues, PIfFalse, PIfTrue, PIfFail, PDoValues,
             PDoFail, PGoTwoArgs, PNotInvokable, PArgFail, PArgOrder, PArgs,
             PBadDefCall3, PDefCall, PDefThenUse, PGoDef, PRec, PDeep, PGoUndef, PGoRec, PGoBad,
             PRebind, PBadDef1, PBadDef2, PBadDefCall, PDefInCall, PNest,
             PBadTarget, PBadArg, PQuoteGo, PTwoGo}

\* ------------------------------------------------------------------
\* The Reader.  A source is a sequence of runes, each a one-character
\* string; a reader position is an index into it (Len + 1 is end of input).

\* bounds of the sources the Reader is run on
MaxSrcLen == 3
MaxTokLen == 3

Keyword(s) == [k |-> "Keyword", n |-> 0, s |-> s, l |-> <<>>]
\* value.Float64, kept exactly as mantissa * 10^exponent
Float64(m, e) == [k |-> "Float", n |-> m, s |-> "", l |-> <<Int64(e)>>]

\* io.EOF, and the reader's error causes
EOF == "EOF"
ErrSkip == "skip"
ErrEOF == "unexpected EOF while parsing"
ErrNumberFormat == "invalid numeric format"
ErrUnmatchedDelimiter == "unmatched delimiter"
ErrNoOpQuote == "cannot quote a no-op form"

\* what a reader call hands back: (value, error) and the position it left
RR(v, e, p) == [val |-> v, err |-> e, pos |-> p]

IsSpace(c) == c \in {" ", "\n", "\t", "\r"}
\* white space and the trigger runes of the default macro table
IsTerminal(c) == IsSpace(c) \/ c \in {";", ":", "'", "~", "(", ")"}

Digits36 == <<"0", "1", "2", "3", "4", "5", "6", "7", "8", "9",
              "a", "b", "c", "d", "e", "f", "g", "h", "i", "j", "k", "l", "m",
              "n", "o", "p", "q", "r", "s", "t", "u", "v", "w", "x", "y", "z">>
\* the value of a digit rune as strconv reads it, 99 if it is no digit
DigitVal(c) == IF \E i \in DOMAIN Digits36 : Digits36[i] = c
               THEN (CHOOSE i \in DOMAIN Digits36 : Digits36[i] = c) - 1
               ELSE 99
IsDigit(c) == DigitVal(c) < 10

RECURSIVE Str(_)
\* string(runes)
Str(cs) == IF cs = <<>> THEN "" ELSE Head(cs) \o Str(Tail(cs))

ContainsRune(cs, c) == \E i \in DOMAIN cs : cs[i] = c

RECURSIVE SkipSpaces(_, _)
SkipSpaces(src, pos) ==
    IF pos <= Len(src) /\ IsSpace(src[pos]) THEN SkipSpaces(src, pos + 1)
    ELSE pos

RECURSIVE TokenEnd(_, _)
TokenEnd(src, pos) ==
    IF pos <= Len(src) /\ ~IsTerminal(src[pos]) THEN TokenEnd(src, pos + 1)
    ELSE pos

\* rd.Token(init): init (if any) and the runes up to the next terminal rune,
\* which is left unread
Token(init, src, pos) ==
    LET Cut(end) == [tok |-> init \o SubSeq(src, pos, end - 1), pos |-> end]
    IN Cut(TokenEnd(src, pos))

\* strings.Split(s, sep) for a one-rune separator
RECURSIVE Split(_, _)
Split(cs, sep) ==
    LET Cut(i) == <<SubSeq(cs, 1, i - 1)>>
                  \o Split(SubSeq(cs, i + 1, Len(cs)), sep)
    IN IF ~ContainsRune(cs, sep) THEN <<cs>>
       ELSE Cut(CHOOSE j \in DOMAIN cs :
                    cs[j] = sep /\ \A h \in 1 .. j - 1 : cs[h] # sep)

RECURSIVE DigitsValue(_, _)
\* the digits read in the base, most significant first
DigitsValue(ds, base) ==
    IF ds = <<>> THEN 0
    ELSE DigitsValue(SubSeq(ds, 1, Len(ds) - 1), base) * base
         + DigitVal(ds[Len(ds)])

\* strconv.ParseUint(s, base, 64) for the tokens used (no underscores, no
\* value beyond 64 bits)
ParseUint(cs, base0) ==
    LET \* pre = <<the base, the length of the base prefix>>
        Digits(pre) ==
            IF pre[1] < 2 \/ pre[1] > 36 THEN [ok |-> FALSE, n |-> 0]
            ELSE IF \E i \in pre[2] + 1 .. Len(cs) : DigitVal(cs[i]) >= pre[1]
            THEN [ok |-> FALSE, n |-> 0]
            ELSE [ok |-> TRUE,
                  n |-> DigitsValue(SubSeq(cs, pre[2] + 1, Len(cs)), pre[1])]
    IN IF cs = <<>> THEN [ok |-> FALSE, n |-> 0]
       ELSE Digits(IF base0 = 0 /\ cs[1] = "0"
                   THEN IF Len(cs) >= 3 /\ cs[2] = "b" THEN <<2, 2>>
                        ELSE IF Len(cs) >= 3 /\ cs[2] = "o" THEN <<8, 2>>
                        ELSE IF Len(cs) >= 3 /\ cs[2] = "x" THEN <<16, 2>>
                        ELSE <<8, 1>>
                   ELSE IF base0 = 0 THEN <<10, 0>> ELSE <<base0, 0>>)

\* strconv.ParseInt(s, base, 64)
ParseInt(cs, base) ==
    LET Signed(u) == IF ~u.ok THEN [ok |-> FALSE, n |-> 0]
                     ELSE [ok |-> TRUE,
                           n |-> IF cs[1] = "-" THEN 0 - u.n ELSE u.n]
    IN IF cs = <<>> THEN [ok |-> FALSE, n |-> 0]
       ELSE Signed(ParseUint(IF cs[1] \in {"+", "-"} THEN Tail(cs) ELSE cs,
                             base))

RECURSIVE Normal(_, _)
\* mantissa and exponent without trailing zeros, so that 1.50 = 1.5
Normal(m, e) == IF m = 0 THEN <<0, 0>>
                ELSE IF m % 10 = 0 THEN Normal(m \div 10, e + 1)
                ELSE <<m, e>>

\* strconv.ParseFloat(s, 64) for decimal tokens without an exponent part:
\* an optional sign, digits with at most one point, at least one digit.
\* The result is <<mantissa, exponent>>.
ParseFloat(cs) ==
    LET Result(nm) == [ok |-> TRUE, m |-> nm[1], e |-> nm[2]]
        \* ds = the digits without the point, e = minus the digits after it
        Number(neg, parts, ds, e) ==
            IF Len(parts) > 2 \/ ds = <<>> \/ \E i \in DOMAIN ds : ~IsDigit(ds[i])
            THEN [ok |-> FALSE, m |-> 0, e |-> 0]
            ELSE Result(Normal((IF neg THEN 0 - 1 ELSE 1) * DigitsValue(ds, 10),
                               e))
        Parts(neg, parts) ==
            Number(neg, parts,
                   IF Len(parts) = 2 THEN parts[1] \o parts[2] ELSE parts[1],
                   IF Len(parts) = 2 THEN 0 - Len(parts[2]) ELSE 0)
    IN IF cs = <<>> THEN [ok |-> FALSE, m |-> 0, e |-> 0]
       ELSE Parts(cs[1] = "-",
                  Split(IF cs[1] \in {"+", "-"} THEN Tail(cs) ELSE cs, "."))

\* parseScientific: <mantissa>e<exponent>
ParseScientific(cs) ==
    LET Value(nm) == <<Float64(nm[1], nm[2]), NoErr>>
        Power(f, x) == IF ~f.ok \/ ~x.ok THEN <<GoNil, ErrNumberFormat>>
                       ELSE Value(Normal(f.m, f.e + x.n))
        Parts(parts) == IF Len(parts) # 2 THEN <<GoNil, ErrNumberFormat>>
                        ELSE Power(ParseFloat(parts[1]), ParseInt(parts[2], 10))
    IN Parts(Split(cs, "e"))

\* parseRadix: <base>r<digits>, a leading - negates the number
ParseRadix(cs) ==
    LET Digits(b, base, v) ==
            IF ~b.ok \/ base < 2 \/ base > 36 \/ ~v.ok
            THEN <<GoNil, ErrNumberFormat>>
            ELSE <<Int64(IF b.n < 0 THEN 0 - v.n ELSE v.n), NoErr>>
        Base(b, base, ds) == Digits(b, base, ParseUint(ds, base))
        Parts(parts, b) == Base(b, IF b.n < 0 THEN 0 - b.n ELSE b.n, parts[2])
        Two(parts) == IF Len(parts) # 2 THEN <<GoNil, ErrNumberFormat>>
                      ELSE Parts(parts, ParseInt(parts[1], 10))
    IN Two(Split(cs, "r"))

ClassifyNumber_IgnoreIntErr(numStr) ==
    LET Float(f) == IF ~f.ok THEN <<GoNil, ErrNumberFormat>>
                    ELSE <<Float64(f.m, f.e), NoErr>>
        Switch(decimalPoint, isRadix, isScientific) ==
            IF isRadix /\ (decimalPoint \/ isScientific)
            THEN <<GoNil, ErrNumberFormat>>
            ELSE IF isScientific THEN ParseScientific(numStr)
            ELSE IF decimalPoint THEN Float(ParseFloat(numStr))
            ELSE IF isRadix THEN ParseRadix(numStr)
            ELSE <<Int64(ParseInt(numStr, 0).n), NoErr>>
    IN Switch(ContainsRune(numStr, "."), ContainsRune(numStr, "r"),
              ContainsRune(numStr, "e"))

\* the switch of readNumber on the collected token
ClassifyNumber(numStr) ==
    LET Float(f) == IF ~f.ok THEN <<GoNil, ErrNumberFormat>>
                    ELSE <<Float64(f.m, f.e), NoErr>>
        Integer(v) == IF ~v.ok THEN <<GoNil, ErrNumberFormat>>
                      ELSE <<Int64(v.n), NoErr>>
        Switch(decimalPoint, isRadix, isScientific) ==
            IF isRadix /\ (decimalPoint \/ isScientific)
            THEN <<GoNil, ErrNumberFormat>>
            ELSE IF isScientific THEN ParseScientific(numStr)
            ELSE IF decimalPoint THEN Float(ParseFloat(numStr))
            ELSE IF isRadix THEN ParseRadix(numStr)
            ELSE Integer(ParseInt(numStr, 0))
    IN Switch(ContainsRune(numStr, "."), ContainsRune(numStr, "r"),
              ContainsRune(numStr, "e"))

\* readNumber(rd, init)
ReadNumber(init, src, pos) ==
    LET Result(r, end) == RR(r[1], r[2], end)
        Parse(t) == Result(ClassifyNumber(t.tok), t.pos)
    IN Parse(Token(<<init>>, src, pos))

\* readSymbol(rd, init), and the predefined symbols the reader maps to values
Predef(s) == IF s = "nil" THEN NilV
             ELSE IF s = "true" THEN Bool(TRUE)
             ELSE IF s = "false" THEN Bool(FALSE)
             ELSE Sym(s)
ReadSymbol(init, src, pos) ==
    LET Wrap(t) == RR(Predef(Str(t.tok)), NoErr, t.pos)
    IN Wrap(Token(<<init>>, src, pos))

\* readKeyword(rd, init): rd.Token(-1)
ReadKeyword(src, pos) ==
    LET Wrap(t) == RR(Keyword(Str(t.tok)), NoErr, t.pos)
    IN Wrap(Token(<<>>, src, pos))

RECURSIVE ReadComment(_, _)
\* readComment: NextRune until a newline; the error of NextRune (io.EOF at
\* end of input) is returned as it is
ReadComment(src, pos) ==
    IF pos > Len(src) THEN RR(GoNil, EOF, pos)
    ELSE IF src[pos] = "\n" THEN RR(GoNil, ErrSkip, pos + 1)
    ELSE ReadComment(src, pos + 1)

UnmatchedDelimiter(pos) == RR(GoNil, ErrUnmatchedDelimiter, pos)

QuoteForm_KeepGoing(expandFunc, r) ==
    RR(List(<<Sym(expandFunc), r.val>>), NoErr, r.pos)

\* the body of quoteFormReader(expandFunc) after rd.One() returned r
QuoteForm(expandFunc, r) ==
    IF r.err # NoErr
    THEN IF r.err = EOF THEN RR(GoNil, ErrEOF, r.pos)
         ELSE IF r.err = ErrSkip THEN RR(GoNil, ErrNoOpQuote, r.pos)
         ELSE RR(GoNil, r.err, r.pos)
    ELSE RR(List(<<Sym(expandFunc), r.val>>), NoErr, r.pos)

\* the expansion name of each quote-family trigger
ExpandFunc(c) == IF c = "'" THEN "quote" ELSE "unquote"

RECURSIVE ReadOne(_, _)
RECURSIVE One(_, _)
RECURSIVE Container(_, _, _, _)

\* quoteFormReader(expandFunc)
QuoteFormReader(expandFunc, src, pos) == QuoteForm(expandFunc, One(src, pos))

\* readList
ReadList(src, pos) == Container(src, pos, ")", <<>>)

\* rd.readOne: skip spaces, read one rune and dispatch on it
ReadOne(src, pos) ==
    LET Dispatch(c, q) ==
            IF IsDigit(c)
               \/ (c \in {"+", "-"} /\ q <= Len(src) /\ IsDigit(src[q]))
            THEN ReadNumber(c, src, q)
            ELSE IF c = ";" THEN ReadComment(src, q)
            ELSE IF c = ":" THEN ReadKeyword(src, q)
            ELSE IF c \in {"'", "~"}
            THEN QuoteFormReader(ExpandFunc(c), src, q)
            ELSE IF c = "(" THEN ReadList(src, q)
            ELSE IF c = ")" THEN UnmatchedDelimiter(q)
            ELSE ReadSymbol(c, src, q)
        At(p) == IF p > Len(src) THEN RR(GoNil, EOF, p)
                 ELSE Dispatch(src[p], p + 1)
    IN At(SkipSpaces(src, pos))

\* rd.One: readOne again while it yields the skip signal
One(src, pos) ==
    LET Got(r) == IF r.err = ErrSkip THEN One(src, r.pos) ELSE r
    IN Got(ReadOne(src, pos))

\* rd.Container(end, ...): forms up to the closing delimiter
Container(src, pos, end, acc) ==
    LET Got(r) == IF r.err = ErrSkip THEN Container(src, r.pos, end, acc)
                  ELSE IF r.err = EOF THEN RR(GoNil, ErrEOF, r.pos)
                  ELSE IF r.err # NoErr THEN RR(GoNil, r.err, r.pos)
                  ELSE Container(src, r.pos, end, Append(acc, r.val))
        At(p) == IF p > Len(src) THEN RR(GoNil, ErrEOF, p)
                 ELSE IF src[p] = end THEN RR(List(acc), NoErr, p + 1)
                 ELSE Got(ReadOne(src, p))
    IN At(SkipSpaces(src, pos))

RECURSIVE All(_, _, _)
\* rd.All: forms until One reports io.EOF; any other error fails the read
All(src, pos, acc) ==
    LET Got(r) == IF r.err = EOF
                  THEN [forms |-> acc, err |-> NoErr, pos |-> r.pos]
                  ELSE IF r.err # NoErr
                  THEN [forms |-> <<>>, err |-> r.err, pos |-> r.pos]
                  ELSE All(src, r.pos, Append(acc, r.val))
    IN Got(One(src, pos))

RECURSIVE SeqsUpTo(_, _)
\* all sequences over S of length at most n
SeqsUpTo(S, n) ==
    LET Longer(T) == T \cup {Append(t, c) : t \in T, c \in S}
    IN IF n = 0 THEN {<<>>} ELSE Longer(SeqsUpTo(S, n - 1))

\* sources of the reader's tests
SrcComment == <<":", "a", " ", ";", " ", "c", "\n", ":", "b">>
SrcUnquote == <<"~", "(", "x", " ", "3", ")">>
\* tokens of the number tests: those that must fail, and some that read
BadNumbers == {<<"2", ".", "3", "r", "4">>,
               <<"1", "e", "1", "3", "e", "1", "0">>,
               <<"1", "r", "2", "r", "3">>,
               <<"2", "r">>,
               <<"-", "3", "r", "1", "2", "3", "4">>,
               <<"0", "8">>,
               <<"9", ".", "3", ".", "2">>}
GoodNumbers == {<<"+", "1", "2", "3", "4">>, <<"0", "x", "1", "2", "4">>,
                <<"0", "1", "2", "3">>, <<"0", "b", "1", "0">>,
                <<"4", "r", "1", "2", "3">>, <<"-", "2", "r", "1", "0">>,
                <<"1", ".", "5", "e", "1", "0">>, <<"1", "e", "-", "1", "0">>,
                <<"0", "1", "2", ".", "3">>}

\* every short source over the runes of forms and comments, every short
\* token over the runes of numbers, and the sources of the tests
Sources ==
    SeqsUpTo({";", "\n", " ", ":", "a", "'", "~", "(", ")", "1"}, MaxSrcLen)
    \cup SeqsUpTo({"0", "1", "8", "r", "e", ".", "-"}, MaxTokLen)
    \cup BadNumbers \cup GoodNumbers \cup {SrcComment, SrcUnquote}

\* the Reader before New(): no source
RdIdle == [src |-> <<>>, phase |-> "idle", val |-> GoNil, err |-> NoErr,
           pos |-> 1, forms |-> <<>>, calls |-> 0]

\* ------------------------------------------------------------------- state
VARIABLES
    prog,      \* the forms the host evaluates, in order
    results,   \* what env.Eval returned to the host for each form so far
    task,      \* per thread: its Go call stack (sequence of activations)
    ret,       \* per thread: what the callee that just returned handed back
    tenv,      \* per thread: the Env it evaluates against
    stack,     \* per Env: env.stack
    genv,      \* per Env: env.globals (a reference to a store)
    store,     \* per store: the bindings of that ConcurrentMap
    nforks,    \* number of goroutines spawned so far
    exited,    \* per spawned thread: the error its goroutine dropped
    crashed,   \* the process died (Go stack overflow or panic)
    rd         \* the Reader: its source, its position and what it returned

vars == <<rd, prog, results, task, ret, tenv, stack, genv, store, nforks,
          exited, crashed>>

\* an activation on a goroutine's call stack
F0 == [op |-> "", pc |-> "", form |-> GoNil, expr |-> <<>>, i |-> 1,
       vals |-> <<>>, exprs |-> <<>>, fn |-> GoNil, d0 |-> 0,
       pushed |-> "none"]
R0 == [val |-> GoNil, err |-> NoErr, expr |-> <<>>]
RetVal(v)  == [R0 EXCEPT !.val = v]
RetErr(e)  == [R0 EXCEPT !.err = e]
RetExpr(x) == [R0 EXCEPT !.expr = <<x>>]

Top(t)  == task[t][Len(task[t])]
Below(t) == SubSeq(task[t], 1, Len(task[t]) - 1)
Env(t)  == tenv[t]

Running(t) == /\ ~crashed
              /\ task[t] # <<>>
              /\ Len(task[t]) <= MaxHost

\* control transfers of thread t
Return(t, r) == /\ task' = [task EXCEPT ![t] = Below(t)]
                /\ ret'  = [ret EXCEPT ![t] = r]
\* the top activation becomes f and calls g
Call(t, f, g) == /\ task' = [task EXCEPT ![t] = Below(t) \o <<f, g>>]
                 /\ ret'  = [ret EXCEPT ![t] = R0]
\* the top activation becomes f (same goroutine, no call)
Goto(t, f) == /\ task' = [task EXCEPT ![t] = Below(t) \o <<f>>]
              /\ ret'  = [ret EXCEPT ![t] = R0]

EnvEvalF(form) == [F0 EXCEPT !.op = "EnvEval", !.pc = "start", !.form = form]
AnalyzeF(form) == [F0 EXCEPT !.op = "Analyze", !.pc = "start", !.form = form]
ExprEvalF(x, d) == [F0 EXCEPT !.op = "ExprEval", !.pc = "start",
                              !.expr = <<x>>, !.d0 = d]

Init ==
    /\ rd = RdIdle
    /\ prog \in Programs
    /\ results = <<>>
    /\ task = [t \in Threads |-> <<>>]
    /\ ret = [t \in Threads |-> R0]
    /\ tenv = [t \in Threads |-> t]
    /\ stack = [e \in Envs |-> <<>>]
    /\ genv = [e \in Envs |-> 0]
    /\ store = [s \in Stores |-> IF s = 0 THEN InitGlobals ELSE EmptyMap]
    /\ nforks = 0
    /\ exited = [t \in Threads |-> "-"]
    /\ crashed = FALSE

\* ------------------------------------------------------------ Env (env.go)
\* resolve: the current frame's local scope first, then the global store;
\* nil when the name is bound in neither.
Resolve(e, name) ==
    LET local == IF stack[e] = <<>> THEN GoNil
                 ELSE Load(stack[e][Len(stack[e])].Vars, name)
    IN IF local # GoNil THEN local ELSE Load(store[genv[e]], name)

\* setGlobal: unconditional store into the global binding store
SetGlobal(e, name, v) ==
    store' = [store EXCEPT ![genv[e]] = Store(@, name, v)]

\* WithMaxDepth storing one more than it was given
WithMaxDepth_OffByOne(depth) == depth + 1

\* WithMaxDepth(depth): env.maxDepth = int(depth)
WithMaxDepth(depth) == depth

\* env.maxDepth after New(withDefaults(WithMaxDepth(MaxDepth))); fork copies it
EnvMaxDepth == WithMaxDepth(MaxDepth)

\* push enforces the depth bound: a push that would exceed maxDepth leaves
\* the stack alone and reports stack-depth-exceeded.
EnvPush(st, frame) ==
    IF Len(st) >= EnvMaxDepth
    THEN [stack |-> st, err |-> ErrStackDepth]
    ELSE [stack |-> Append(st, frame), err |-> NoErr]

\* pop removes the newest frame
EnvPop(st) == SubSeq(st, 1, Len(st) - 1)

\* fork: same global store, empty call stack
Fork(e) == [stack |-> <<>>, globals |-> genv[e]]

StackFrame(name, args) == [Name |-> name, Args |-> args, Vars |-> EmptyMap]

\* --------------------------------------------------- Env.Eval: the pipeline
EnvEvalStart(t) ==
    /\ Running(t)
    /\ Top(t).op = "EnvEval" /\ Top(t).pc = "start"
    /\ Call(t, [Top(t) EXCEPT !.pc = "analyzed"], AnalyzeF(Top(t).form))
    /\ UNCHANGED <<rd, prog, results, tenv, stack, genv, store, nforks, exited,
                   crashed>>

EnvEvalAnalyzed(t) ==
    /\ Running(t)
    /\ Top(t).op = "EnvEval" /\ Top(t).pc = "analyzed"
    /\ IF ret[t].err # NoErr
       THEN Return(t, RetErr(ret[t].err))
       ELSE Goto(t, ExprEvalF(ret[t].expr[1], Len(stack[Env(t)])))
    /\ UNCHANGED <<rd, prog, results, tenv, stack, genv, store, nforks, exited,
                   crashed>>

\* ------------------------------------------------- BasicAnalyzer.Analyze
IsSeq(form)  == form.k = "List" /\ form.l # <<>>
IsSpecial(form, name) ==
    IsSeq(form) /\ form.l[1].k = "Sym" /\ form.l[1].s = name
IsCall(form) ==
    IsSeq(form) /\ ~(form.l[1].k = "Sym" /\ form.l[1].s \in SpecialForms)

AnalyzeSymbol(t) ==
    /\ Running(t)
    /\ Top(t).op = "Analyze" /\ Top(t).form.k = "Sym"
    /\ LET v == Resolve(Env(t), Top(t).form.s)
       IN IF v = GoNil
          THEN Return(t, RetErr(ErrNotFound))
          ELSE Return(t, RetExpr(ConstExpr(v)))
    /\ UNCHANGED <<rd, prog, results, tenv, stack, genv, store, nforks, exited,
                   crashed>>

AnalyzeConst(t) ==
    /\ Running(t)
    /\ Top(t).op = "Analyze"
    /\ Top(t).form.k # "Sym" /\ ~IsSeq(Top(t).form)
    /\ Return(t, RetExpr(ConstExpr(Top(t).form)))
    /\ UNCHANGED <<rd, prog, results, tenv, stack, genv, store, nforks, exited,
                   crashed>>

\* ------------------------------------------------ special forms (special.go)
ParseQuoteExpr(t) ==
    /\ Running(t)
    /\ Top(t).op = "Analyze" /\ IsSpecial(Top(t).form, "quote")
    /\ LET args == Next1(Top(t).form.l)
       IN IF Len(args) # 1
          THEN Return(t, RetErr(ErrInvalidDef))
          ELSE Return(t, RetExpr(QuoteExpr(First(args))))
    /\ UNCHANGED <<rd, prog, results, tenv, stack, genv, store, nforks, exited,
                   crashed>>

ParseGoExpr(t) ==
    /\ Running(t)
    /\ Top(t).op = "Analyze" /\ IsSpecial(Top(t).form, "go")
    /\ LET v == First(Next1(Top(t).form.l))
       IN IF v = GoNil
          THEN Return(t, RetErr(ErrGoArg))
          ELSE Return(t, RetExpr(GoExpr(v)))
    /\ UNCHANGED <<rd, prog, results, tenv, stack, genv, store, nforks, exited,
                   crashed>>

\* the checks parseDefExpr makes before it evaluates the value form
DefArgsValid(args) == Len(args) = 2 /\ First(args).k = "Sym"

\* parseDefExpr evaluating the value form before it validates the form
ParseDefExpr_EvalBeforeCheck(t) ==
    /\ Running(t)
    /\ Top(t).op = "Analyze" /\ IsSpecial(Top(t).form, "def")
    /\ LET args == Next1(Top(t).form.l)
       IN IF Len(args) < 2
          THEN Return(t, RetErr(ErrInvalidDef))
          ELSE Call(t, [F0 EXCEPT !.op = "ParseDef", !.pc = "evaled",
                                  !.form = List(args)],
                       EnvEvalF(First(Next1(args))))
    /\ UNCHANGED <<rd, prog, results, tenv, stack, genv, store, nforks, exited,
                   crashed>>

\* parseDefExpr without the Symbol check on the first argument
ParseDefExpr_NoSymCheck(t) ==
    /\ Running(t)
    /\ Top(t).op = "Analyze" /\ IsSpecial(Top(t).form, "def")
    /\ LET args == Next1(Top(t).form.l)
       IN IF Len(args) # 2
          THEN Return(t, RetErr(ErrInvalidDef))
          ELSE Call(t, [F0 EXCEPT !.op = "ParseDef", !.pc = "evaled",
                                  !.form = List(args)],
                       EnvEvalF(First(Next1(args))))
    /\ UNCHANGED <<rd, prog, results, tenv, stack, genv, store, nforks, exited,
                   crashed>>

ParseDefExpr(t) ==
    /\ Running(t)
    /\ Top(t).op = "Analyze" /\ IsSpecial(Top(t).form, "def")
    /\ LET args == Next1(Top(t).form.l)
       IN IF ~DefArgsValid(args)
          THEN Return(t, RetErr(ErrInvalidDef))
          ELSE Call(t, [F0 EXCEPT !.op = "ParseDef", !.pc = "evaled",
                                  !.form = List(args)],
                       EnvEvalF(First(Next1(args))))
    /\ UNCHANGED <<rd, prog, results, tenv, stack, genv, store, nforks, exited,
                   crashed>>

\* parseDefExpr binding the name already while it analyses the form
ParseDefExprBuild_Eager(t) ==
    /\ Running(t)
    /\ Top(t).op = "ParseDef"
    /\ IF ret[t].err # NoErr
       THEN /\ Return(t, RetErr(ret[t].err))
            /\ UNCHANGED store
       ELSE /\ SetGlobal(Env(t), First(Top(t).form.l).s, ret[t].val)
            /\ Return(t, RetExpr(DefExpr(First(Top(t).form.l).s,
                                         ret[t].val)))
    /\ UNCHANGED <<rd, prog, results, tenv, stack, genv, nforks, exited, crashed>>

\* parseDefExpr after ctx.Eval(second) returned
ParseDefExprBuild(t) ==
    /\ Running(t)
    /\ Top(t).op = "ParseDef"
    /\ IF ret[t].err # NoErr
       THEN Return(t, RetErr(ret[t].err))
       ELSE Return(t, RetExpr(DefExpr(First(Top(t).form.l).s, ret[t].val)))
    /\ UNCHANGED <<rd, prog, results, tenv, stack, genv, store, nforks, exited,
                   crashed>>

\* ---------------------------------------------- BasicAnalyzer.analyzeSeq
\* fmt.Sprintf("%s", target): a diagnostic rendering of the target node
ExprString(x) == IF x.t = "Const" /\ x.val.k = "Fn" THEN x.val.s ELSE x.t

AnalyzeSeqStart(t) ==
    /\ Running(t)
    /\ Top(t).op = "Analyze" /\ IsCall(Top(t).form)
    /\ Goto(t, [F0 EXCEPT !.op = "AnalyzeSeq", !.pc = "loop",
                          !.form = Top(t).form])
    /\ UNCHANGED <<rd, prog, results, tenv, stack, genv, store, nforks, exited,
                   crashed>>

\* one turn of value.ForEach(seq, ...): the target is analysed on the first
\* turn, then every item of the sequence, the first included
AnalyzeSeqLoop(t) ==
    /\ Running(t)
    /\ Top(t).op = "AnalyzeSeq" /\ Top(t).pc = "loop"
    /\ LET f == Top(t) IN
       IF f.i > Len(f.form.l)
       THEN Return(t, RetExpr(InvokeExpr(ExprString(f.expr[1]), f.expr,
                                         f.exprs)))
       ELSE IF f.expr = <<>>
       THEN Call(t, [f EXCEPT !.pc = "target"], AnalyzeF(First(f.form.l)))
       ELSE Call(t, [f EXCEPT !.pc = "item"], AnalyzeF(f.form.l[f.i]))
    /\ UNCHANGED <<rd, prog, results, tenv, stack, genv, store, nforks, exited,
                   crashed>>

\* analyzeSeq taking the arguments from the tail of the sequence only
AnalyzeSeqTarget_Tail(t) ==
    /\ Running(t)
    /\ Top(t).op = "AnalyzeSeq" /\ Top(t).pc = "target"
    /\ IF ret[t].err # NoErr
       THEN Return(t, RetErr(ret[t].err))
       ELSE Goto(t, [Top(t) EXCEPT !.pc = "loop", !.expr = ret[t].expr,
                                   !.i = 2])
    /\ UNCHANGED <<rd, prog, results, tenv, stack, genv, store, nforks, exited,
                   crashed>>

AnalyzeSeqTarget(t) ==
    /\ Running(t)
    /\ Top(t).op = "AnalyzeSeq" /\ Top(t).pc = "target"
    /\ IF ret[t].err # NoErr
       THEN Return(t, RetErr(ret[t].err))
       ELSE Goto(t, [Top(t) EXCEPT !.pc = "loop", !.expr = ret[t].expr])
    /\ UNCHANGED <<rd, prog, results, tenv, stack, genv, store, nforks, exited,
                   crashed>>

AnalyzeSeqItem(t) ==
    /\ Running(t)
    /\ Top(t).op = "AnalyzeSeq" /\ Top(t).pc = "item"
    /\ IF ret[t].err # NoErr
       THEN Return(t, RetErr(ret[t].err))
       ELSE Goto(t, [Top(t) EXCEPT !.pc = "loop", !.i = @ + 1,
                                   !.exprs = Append(@, ret[t].expr[1])])
    /\ UNCHANGED <<rd, prog, results, tenv, stack, genv, store, nforks, exited,
                   crashed>>

\* ----------------------------------------------------- Expr.Eval (expr.go)
Evaluating(t, kind) ==
    /\ Running(t)
    /\ Top(t).op = "ExprEval"
    /\ Top(t).expr[1].t = kind

ConstExprEval(t) ==
    /\ Evaluating(t, "Const")
    /\ Return(t, RetVal(Top(t).expr[1].val))
    /\ UNCHANGED <<rd, prog, results, tenv, stack, genv, store, nforks, exited,
                   crashed>>

QuoteExprEval(t) ==
    /\ Evaluating(t, "Quote")
    /\ Return(t, RetVal(Top(t).expr[1].val))
    /\ UNCHANGED <<rd, prog, results, tenv, stack, genv, store, nforks, exited,
                   crashed>>

\* DefExpr.Eval testing the name for blankness without trimming it
DefExprEval_NoTrim(t) ==
    /\ Evaluating(t, "Def")
    /\ LET name == Top(t).expr[1].name
       IN IF name = ""
          THEN /\ Return(t, RetErr(ErrInvalidBindName))
               /\ UNCHANGED store
          ELSE /\ SetGlobal(Env(t), name, Top(t).expr[1].val)
               /\ Return(t, RetVal(Sym(name)))
    /\ UNCHANGED <<rd, prog, results, tenv, stack, genv, nforks, exited, crashed>>

\* DefExpr.Eval binding in the current frame's scope when there is one
DefExprEval_Frame(t) ==
    /\ Evaluating(t, "Def")
    /\ LET name == TrimSpace(Top(t).expr[1].name)
           e == Env(t)
       IN IF name = ""
          THEN /\ Return(t, RetErr(ErrInvalidBindName))
               /\ UNCHANGED <<store, stack>>
          ELSE IF stack[e] # <<>>
          THEN /\ stack' = [stack EXCEPT ![e][Len(stack[e])].Vars =
                                Store(@, name, Top(t).expr[1].val)]
               /\ Return(t, RetVal(Sym(name)))
               /\ UNCHANGED store
          ELSE /\ SetGlobal(e, name, Top(t).expr[1].val)
               /\ Return(t, RetVal(Sym(name)))
               /\ UNCHANGED stack
    /\ UNCHANGED <<rd, prog, results, tenv, genv, nforks, exited, crashed>>

DefExprEval(t) ==
    /\ Evaluating(t, "Def")
    /\ LET name == TrimSpace(Top(t).expr[1].name)
       IN IF name = ""
          THEN /\ Return(t, RetErr(ErrInvalidBindName))
               /\ UNCHANGED store
          ELSE /\ SetGlobal(Env(t), name, Top(t).expr[1].val)
               /\ Return(t, RetVal(Sym(name)))
    /\ UNCHANGED <<rd, prog, results, tenv, stack, genv, nforks, exited, crashed>>

\* the goroutine body: _, _ = child.Eval(ge.Value)
GoFuncF == [F0 EXCEPT !.op = "GoFunc", !.pc = "wait"]

\* GoExpr.Eval giving the child a copy of the globals instead of the store
GoExprEval_CopyGlobals(t) ==
    /\ Evaluating(t, "Go")
    /\ nforks < MaxForks
    /\ LET c == nforks + 1
       IN /\ nforks' = c
          /\ stack' = [stack EXCEPT ![c] = <<>>]
          /\ genv'  = [genv EXCEPT ![c] = c]
          /\ store' = [store EXCEPT ![c] = store[genv[Env(t)]]]
          /\ tenv'  = [tenv EXCEPT ![c] = c]
          /\ task'  = [task EXCEPT ![t] = Below(t),
                                   ![c] = <<GoFuncF,
                                            EnvEvalF(Top(t).expr[1].val)>>]
          /\ ret'   = [ret EXCEPT ![t] = RetVal(GoNil)]
    /\ UNCHANGED <<rd, prog, results, exited, crashed>>

\* GoExpr.Eval without the go statement: return child.Eval(ge.Value)
GoExprEval_Sync(t) ==
    /\ Evaluating(t, "Go")
    /\ Goto(t, EnvEvalF(Top(t).expr[1].val))
    /\ UNCHANGED <<rd, prog, results, tenv, stack, genv, store, nforks, exited,
                   crashed>>

\* GoExpr.Eval whose goroutine evaluates against env instead of child
GoExprEval_SameEnv(t) ==
    /\ Evaluating(t, "Go")
    /\ nforks < MaxForks
    /\ LET c == nforks + 1
       IN /\ nforks' = c
          /\ tenv'  = [tenv EXCEPT ![c] = Env(t)]
          /\ task'  = [task EXCEPT ![t] = Below(t),
                                   ![c] = <<GoFuncF,
                                            EnvEvalF(Top(t).expr[1].val)>>]
          /\ ret'   = [ret EXCEPT ![t] = RetVal(GoNil)]
    /\ UNCHANGED <<rd, prog, results, stack, genv, store, exited, crashed>>

GoExprEval(t) ==
    /\ Evaluating(t, "Go")
    /\ nforks < MaxForks
    /\ LET c == nforks + 1
           child == Fork(Env(t))
       IN /\ nforks' = c
          /\ stack' = [stack EXCEPT ![c] = child.stack]
          /\ genv'  = [genv EXCEPT ![c] = child.globals]
          /\ tenv'  = [tenv EXCEPT ![c] = c]
          /\ task'  = [task EXCEPT ![t] = Below(t),
                                   ![c] = <<GoFuncF,
                                            EnvEvalF(Top(t).expr[1].val)>>]
          /\ ret'   = [ret EXCEPT ![t] = RetVal(GoNil)]
    /\ UNCHANGED <<rd, prog, results, store, exited, crashed>>

GoFuncDone(t) ==
    /\ Running(t)
    /\ Top(t).op = "GoFunc"
    /\ exited' = [exited EXCEPT ![t] = IF ret[t].err = NoErr THEN "ok"
                                       ELSE ret[t].err]
    /\ task' = [task EXCEPT ![t] = <<>>]
    /\ ret'  = [ret EXCEPT ![t] = R0]
    /\ UNCHANGED <<rd, prog, results, tenv, stack, genv, store, nforks, crashed>>

\* IfExpr.Eval: the test first, then exactly one of the branches
IfExprTest(t) ==
    /\ Evaluating(t, "If") /\ Top(t).pc = "start"
    /\ Call(t, [Top(t) EXCEPT !.pc = "tested"],
               EnvEvalF(Top(t).expr[1].forms[1]))
    /\ UNCHANGED <<rd, prog, results, tenv, stack, genv, store, nforks, exited,
                   crashed>>

\* IfExpr.Eval taking numeric zero for false as well
IfExprBranch_ZeroFalsy(t) ==
    /\ Evaluating(t, "If") /\ Top(t).pc = "tested"
    /\ IF ret[t].err # NoErr
       THEN Return(t, RetErr(ret[t].err))
       ELSE IF IsTruthy(ret[t].val) /\ ret[t].val # Int64(0)
       THEN Goto(t, EnvEvalF(Top(t).expr[1].forms[2]))
       ELSE Goto(t, EnvEvalF(Top(t).expr[1].forms[3]))
    /\ UNCHANGED <<rd, prog, results, tenv, stack, genv, store, nforks, exited,
                   crashed>>

IfExprBranch(t) ==
    /\ Evaluating(t, "If") /\ Top(t).pc = "tested"
    /\ IF ret[t].err # NoErr
       THEN Return(t, RetErr(ret[t].err))
       ELSE IF IsTruthy(ret[t].val)
       THEN Goto(t, EnvEvalF(Top(t).expr[1].forms[2]))
       ELSE Goto(t, EnvEvalF(Top(t).expr[1].forms[3]))
    /\ UNCHANGED <<rd, prog, results, tenv, stack, genv, store, nforks, exited,
                   crashed>>

\* DoExpr.Eval: one turn of the loop over de.Forms (vals holds res), then
\* the nil result becomes value.Nil{}
DoExprLoop(t) ==
    /\ Evaluating(t, "Do") /\ Top(t).pc \in {"start", "loop"}
    /\ LET f == Top(t) IN
       IF f.i > Len(f.expr[1].forms)
       THEN Return(t, RetVal(IF f.vals = <<>> \/ f.vals[1] = GoNil
                             THEN NilV ELSE f.vals[1]))
       ELSE Call(t, [f EXCEPT !.pc = "form"], EnvEvalF(f.expr[1].forms[f.i]))
    /\ UNCHANGED <<rd, prog, results, tenv, stack, genv, store, nforks, exited,
                   crashed>>

\* DoExpr.Eval going on with the next form after a failing one
DoExprGot_IgnoreErr(t) ==
    /\ Evaluating(t, "Do") /\ Top(t).pc = "form"
    /\ Goto(t, [Top(t) EXCEPT !.pc = "loop", !.i = @ + 1,
                              !.vals = <<ret[t].val>>])
    /\ UNCHANGED <<rd, prog, results, tenv, stack, genv, store, nforks, exited,
                   crashed>>

DoExprGot(t) ==
    /\ Evaluating(t, "Do") /\ Top(t).pc = "form"
    /\ IF ret[t].err # NoErr
       THEN Return(t, RetErr(ret[t].err))
       ELSE Goto(t, [Top(t) EXCEPT !.pc = "loop", !.i = @ + 1,
                                   !.vals = <<ret[t].val>>])
    /\ UNCHANGED <<rd, prog, results, tenv, stack, genv, store, nforks, exited,
                   crashed>>

\* InvokeExpr.Eval, split at each call it makes
InvokeExprTarget(t) ==
    /\ Evaluating(t, "Invoke") /\ Top(t).pc = "start"
    /\ Call(t, [Top(t) EXCEPT !.pc = "target"],
               ExprEvalF(Top(t).expr[1].target[1], Len(stack[Env(t)])))
    /\ UNCHANGED <<rd, prog, results, tenv, stack, genv, store, nforks, exited,
                   crashed>>

InvokeExprCheck(t) ==
    /\ Evaluating(t, "Invoke") /\ Top(t).pc = "target"
    /\ IF ret[t].err # NoErr
       THEN Return(t, RetErr(ret[t].err))
       ELSE IF ret[t].val.k # "Fn"
       THEN Return(t, RetErr(ErrNotInvokable))
       ELSE Goto(t, [Top(t) EXCEPT !.pc = "args", !.fn = ret[t].val])
    /\ UNCHANGED <<rd, prog, results, tenv, stack, genv, store, nforks, exited,
                   crashed>>

InvokeExprArg(t) ==
    /\ Evaluating(t, "Invoke") /\ Top(t).pc = "args"
    /\ Top(t).i <= Len(Top(t).expr[1].args)
    /\ Call(t, [Top(t) EXCEPT !.pc = "arg"],
               ExprEvalF(Top(t).expr[1].args[Top(t).i], Len(stack[Env(t)])))
    /\ UNCHANGED <<rd, prog, results, tenv, stack, genv, store, nforks, exited,
                   crashed>>

\* InvokeExpr.Eval going on with the next argument after a failing one
InvokeExprGotArg_IgnoreErr(t) ==
    /\ Evaluating(t, "Invoke") /\ Top(t).pc = "arg"
    /\ Goto(t, [Top(t) EXCEPT !.pc = "args", !.i = @ + 1,
                              !.vals = Append(@, ret[t].val)])
    /\ UNCHANGED <<rd, prog, results, tenv, stack, genv, store, nforks, exited,
                   crashed>>

InvokeExprGotArg(t) ==
    /\ Evaluating(t, "Invoke") /\ Top(t).pc = "arg"
    /\ IF ret[t].err # NoErr
       THEN Return(t, RetErr(ret[t].err))
       ELSE Goto(t, [Top(t) EXCEPT !.pc = "args", !.i = @ + 1,
                                   !.vals = Append(@, ret[t].val)])
    /\ UNCHANGED <<rd, prog, results, tenv, stack, genv, store, nforks, exited,
                   crashed>>

\* env.push(...) as a statement (what push returns is dropped), then
\* defer env.pop(), then fn.Invoke(env, args...)
InvokeExprPush(t) ==
    /\ Evaluating(t, "Invoke") /\ Top(t).pc = "args"
    /\ Top(t).i > Len(Top(t).expr[1].args)
    /\ LET f == Top(t)
           r == EnvPush(stack[Env(t)], StackFrame(f.expr[1].name, f.vals))
       IN /\ stack' = [stack EXCEPT ![Env(t)] = r.stack]
          /\ Call(t, [f EXCEPT !.pc = "invoke",
                               !.pushed = IF r.err = NoErr THEN "ok"
                                          ELSE "refused"],
                     EnvEvalF(FnBody(f.fn.s)))
    /\ UNCHANGED <<rd, prog, results, tenv, genv, store, nforks, exited, crashed>>

\* fn.Invoke returned: the deferred env.pop() runs, the result is returned.
\* Popping an empty stack is a panic of the goroutine.
InvokeExprReturn(t) ==
    /\ Evaluating(t, "Invoke") /\ Top(t).pc = "invoke"
    /\ IF stack[Env(t)] = <<>>
       THEN /\ crashed' = TRUE
            /\ UNCHANGED <<task, ret, stack>>
       ELSE /\ stack' = [stack EXCEPT ![Env(t)] = EnvPop(@)]
            /\ Return(t, ret[t])
            /\ UNCHANGED crashed
    /\ UNCHANGED <<rd, prog, results, tenv, genv, store, nforks, exited>>

\* --------------------------------------------------------------- the host
HostF == [F0 EXCEPT !.op = "Host", !.pc = "wait"]

\* the host calls env.Eval on the next form of its program
HostEval ==
    /\ ~crashed
    /\ task[0] = <<>>
    /\ Len(results) < Len(prog)
    /\ prog[Len(results) + 1].k # "Node"
    /\ task' = [task EXCEPT ![0] = <<HostF, EnvEvalF(prog[Len(results) + 1])>>]
    /\ ret' = [ret EXCEPT ![0] = R0]
    /\ UNCHANGED <<rd, prog, results, tenv, stack, genv, store, nforks, exited,
                   crashed>>

\* the host calls Eval(env) on a node of its own
HostEvalExpr ==
    /\ ~crashed
    /\ task[0] = <<>>
    /\ Len(results) < Len(prog)
    /\ prog[Len(results) + 1].k = "Node"
    /\ task' = [task EXCEPT ![0] =
                 <<HostF, ExprEvalF(NodeOf(prog[Len(results) + 1].s),
                                    Len(stack[tenv[0]]))>>]
    /\ ret' = [ret EXCEPT ![0] = R0]
    /\ UNCHANGED <<rd, prog, results, tenv, stack, genv, store, nforks, exited,
                   crashed>>

HostResult ==
    /\ Running(0)
    /\ Top(0).op = "Host"
    /\ results' = Append(results, [val |-> ret[0].val, err |-> ret[0].err])
    /\ task' = [task EXCEPT ![0] = <<>>]
    /\ ret' = [ret EXCEPT ![0] = R0]
    /\ UNCHANGED <<rd, prog, tenv, stack, genv, store, nforks, exited, crashed>>

\* a goroutine whose call stack outgrows the host's limit kills the process
HostOverflow(t) ==
    /\ ~crashed
    /\ Len(task[t]) > MaxHost
    /\ crashed' = TRUE
    /\ UNCHANGED <<rd, prog, results, task, ret, tenv, stack, genv, store, nforks,
                   exited>>

Next ==
    \/ HostEval
    \/ HostEvalExpr
    \/ HostResult
    \/ \E t \in Threads :
        \/ EnvEvalStart(t)
        \/ EnvEvalAnalyzed(t)
        \/ AnalyzeSymbol(t)
        \/ AnalyzeConst(t)
        \/ ParseQuoteExpr(t)
        \/ ParseGoExpr(t)
        \/ ParseDefExpr(t)
        \/ ParseDefExprBuild(t)
        \/ AnalyzeSeqStart(t)
        \/ AnalyzeSeqLoop(t)
        \/ AnalyzeSeqTarget(t)
        \/ AnalyzeSeqItem(t)
        \/ ConstExprEval(t)
        \/ QuoteExprEval(t)
        \/ DefExprEval(t)
        \/ GoExprEval(t)
        \/ GoFuncDone(t)
        \/ IfExprTest(t)
        \/ IfExprBranch(t)
        \/ DoExprLoop(t)
        \/ DoExprGot(t)
        \/ InvokeExprTarget(t)
        \/ InvokeExprCheck(t)
        \/ InvokeExprArg(t)
        \/ InvokeExprGotArg(t)
        \/ InvokeExprPush(t)
        \/ InvokeExprReturn(t)
        \/ HostOverflow(t)

Spec == Init /\ [][Next]_vars

\* ------------------------------------------------ the Reader's operations
\* what the Reader leaves alone: everything of the evaluator
evars == <<prog, results, task, ret, tenv, stack, genv, store, nforks,
           exited, crashed>>

\* one dispatch of rd.readOne on a fresh Reader: what the macro returned
ReaderReadOne ==
    /\ rd.phase = "new"
    /\ LET Got(r) == [rd EXCEPT !.phase = "readOne", !.val = r.val,
                                !.err = r.err, !.pos = r.pos, !.calls = 1]
       IN rd' = Got(ReadOne(rd.src, rd.pos))
    /\ UNCHANGED evars

\* rd.One(), called again as long as it returned a form
ReaderOne ==
    /\ rd.phase \in {"new", "one"}
    /\ rd.err = NoErr
    /\ LET Got(r) == [rd EXCEPT !.phase = "one", !.val = r.val,
                                !.err = r.err, !.pos = r.pos, !.calls = @ + 1,
                                !.forms = IF r.err = NoErr
                                          THEN Append(@, r.val) ELSE @]
       IN rd' = Got(One(rd.src, rd.pos))
    /\ UNCHANGED evars

\* rd.All() on a fresh Reader
ReaderAll ==
    /\ rd.phase = "new"
    /\ LET Got(r) == [rd EXCEPT !.phase = "all", !.err = r.err,
                                !.pos = r.pos, !.forms = r.forms, !.calls = 1]
       IN rd' = Got(All(rd.src, rd.pos, <<>>))
    /\ UNCHANGED evars

InitReader ==
    /\ rd \in {[RdIdle EXCEPT !.src = src, !.phase = "new"] : src \in Sources}
    /\ prog = <<>>
    /\ results = <<>>
    /\ task = [t \in Threads |-> <<>>]
    /\ ret = [t \in Threads |-> R0]
    /\ tenv = [t \in Threads |-> t]
    /\ stack = [e \in Envs |-> <<>>]
    /\ genv = [e \in Envs |-> 0]
    /\ store = [s \in Stores |-> IF s = 0 THEN InitGlobals ELSE EmptyMap]
    /\ nforks = 0
    /\ exited = [t \in Threads |-> "-"]
    /\ crashed = FALSE

NextReader ==
    \/ ReaderReadOne
    \/ ReaderOne
    \/ ReaderAll

SpecReader == InitReader /\ [][NextReader]_vars

\* ================================================================= claims
Activations(t) == {task[t][i] : i \in DOMAIN task[t]}
InvokeActs(t) == {f \in Activations(t) :
                    f.op = "ExprEval" /\ f.expr[1].t = "Invoke"}
HostErrs == {results[i].err : i \in DOMAIN results}

\* C1: when the push of an Invoke evaluation is refused because it would
\* exceed the maximum depth, the target's invocation is not performed and
\* the evaluation fails with stack-depth-exceeded.
C1_DepthExceededFailsWithoutInvoke ==
    \A t \in Threads : \A f \in InvokeActs(t) :
        ~(f.pushed = "refused" /\ f.pc = "invoke")

\* C2: in every state every environment, root or fork, holds at most the
\* configured maximum number of frames.
C2_StackDepthBounded ==
    \A e \in Envs : Len(stack[e]) <= MaxDepth

\* a fork is full and a further invocation's push has been refused
C2_Witness ==
    \E t \in 1 .. MaxForks :
        /\ Len(stack[tenv[t]]) = MaxDepth
        /\ \E f \in InvokeActs(t) : f.pushed = "refused"

\* C3: whenever an InvokeExpr.Eval activation returns, with whatever
\* outcome, its environment's depth is what it was when that Eval started.
C3_FramePoppedOnEveryOutcome ==
    [][\A t \in Threads :
          (/\ task[t] # <<>>
           /\ Top(t).op = "ExprEval"
           /\ Top(t).expr[1].t = "Invoke"
           /\ Len(task'[t]) < Len(task[t]))
          => Len(stack'[tenv[t]]) = Top(t).d0]_vars

IsGoNodeForm(f) == IsSpecial(f, "go") /\ Len(f.l) >= 2
HostOut(v, e) == [val |-> v, err |-> e]

\* C4: once the goroutine spawned for (go (def y 1)) has completed, y
\* resolves to 1 in the originating environment and in every fork.
GoDefThread == IF prog = PGoDef THEN 1 ELSE IF prog = PTwoGo THEN 2 ELSE 0
C4_ForkedDefVisibleInOrigin ==
    (GoDefThread # 0 /\ exited[GoDefThread] = "ok")
    => \A e \in 0 .. nforks : Resolve(e, "y") = Int64(1)

C4_Witness ==
    /\ prog = PGoDef
    /\ exited[1] = "ok"
    /\ Len(results) = 2
    /\ results[2] = HostOut(Int64(1), NoErr)

\* C5: evaluating a Go node hands the Nil value and no error to its caller.
C5_GoReturnsNilValue ==
    \A i \in DOMAIN results :
        IsGoNodeForm(prog[i]) => results[i] = HostOut(NilV, NoErr)

\* C6: evaluating a Go node never returns an error, and a failure of the
\* spawned evaluation reaches no later evaluation of the originating
\* environment: each later form ends as it does on its own.
OwnErrs(f) == IF f = Sym("y") THEN {NoErr, ErrNotFound} ELSE {NoErr}
C7_ForkStackIndependent ==
    [][\A e \in Envs :
          /\ stack'[e] # stack[e]
                => (tenv[e] = e /\ task[e] # <<>> /\ task'[e] # task[e])
          /\ (e > 0 /\ task[e] = <<>> /\ task'[e] # <<>>)
                => stack'[tenv'[e]] = <<>>]_vars

C7_Witness ==
    \E c \in 1 .. MaxForks :
        /\ stack[c] # <<>> /\ stack[0] # <<>>
        /\ Len(stack[c]) # Len(stack[0])
        /\ task[c] # <<>> /\ task[0] # <<>>

\* C8: a step of DefExpr.Eval with a non-blank name leaves the value bound
\* under that name in the global store, at any depth, and returns the name
\* as a Symbol; (def x 5) and then x give the host x and 5.
C8_DefStoresGlobally ==
    [][/\ \A t \in Threads :
            (/\ Running(t)
             /\ Top(t).op = "ExprEval"
             /\ Top(t).expr[1].t = "Def"
             /\ TrimSpace(Top(t).expr[1].name) # ""
             /\ task'[t] # task[t])
            => /\ Load(store'[genv[tenv[t]]], TrimSpace(Top(t).expr[1].name))
                    = Top(t).expr[1].val
               /\ ret'[t] = RetVal(Sym(TrimSpace(Top(t).expr[1].name)))
       /\ (prog = PDefThenUse /\ Len(results') = 2)
            => results' = <<HostOut(Sym("x"), NoErr),
                            HostOut(Int64(5), NoErr)>>
       /\ (prog = PDefInCall /\ Len(results') = 2)
            => results'[2] = HostOut(Int64(3), NoErr)]_vars

C8_Witness ==
    /\ prog = PDefInCall
    /\ results = <<HostOut(Sym("z"), NoErr), HostOut(Int64(3), NoErr)>>

\* C9: in (ok (def x 2) x), analysed while x is 1, the argument x still
\* evaluates to 1 after the def has rebound x to 2.
C9_SymbolCapturedAtAnalysis ==
    prog = PRebind =>
        \A i \in DOMAIN stack[0] :
            Len(stack[0][i].Args) = 3
            => /\ stack[0][i].Args[3] = Int64(1)
               /\ Load(store[genv[0]], "x") = Int64(2)

C9_Witness ==
    /\ prog = PRebind
    /\ stack[0] # <<>>
    /\ stack[0][1].Args = <<Fn("ok"), Sym("x"), Int64(1)>>
    /\ Resolve(0, "x") = Int64(2)

\* C10: a def form whose argument count is not two or whose first argument
\* is not a Symbol ends with invalid-form, and no Def node is built for it.
BadDefForm(f) ==
    IsSpecial(f, "def") /\ (Len(f.l) # 3 \/ f.l[2].k # "Sym")
IsDefNode(x) == x # <<>> /\ x[1].t = "Def"
C10_InvalidDefRejected ==
    /\ \A i \in DOMAIN results :
          BadDefForm(prog[i]) => results[i] = HostOut(GoNil, ErrInvalidDef)
    /\ (\A i \in DOMAIN prog : BadDefForm(prog[i]))
          => \A t \in Threads :
                /\ ~IsDefNode(ret[t].expr)
                /\ \A f \in Activations(t) : ~IsDefNode(f.expr)

C10_Witness ==
    /\ prog = PBadDef1
    /\ results = <<HostOut(GoNil, ErrInvalidDef),
                   HostOut(GoNil, ErrInvalidDef)>>

Global(name) == Load(store[genv[0]], name)
HostIdle == task[0] = <<>>

\* C11: a DefExpr whose name is blank after trimming fails with
\* invalid-binding-name and leaves the global store as it was; a name with
\* surrounding blanks is bound under its trimmed form.
C11_BlankNameRejected ==
    prog = PBlankDef =>
        /\ Len(results) >= 1
              => results[1] = HostOut(GoNil, ErrInvalidBindName)
        /\ (Len(results) = 1 /\ HostIdle) => store[genv[0]] = InitGlobals
        /\ DOMAIN store[genv[0]] \subseteq FnNames \cup {"x"}
        /\ Len(results) >= 2 => results[2] = HostOut(Sym("x"), NoErr)

C11_Witness ==
    /\ prog = PBlankDef
    /\ Len(results) = 1 /\ HostIdle
    /\ results[1].err = ErrInvalidBindName

\* C12: analysing a go form with no argument or with more than one
\* argument fails with an error.
C12_GoNeedsExactlyOneArg ==
    \A i \in DOMAIN results :
        (IsSpecial(prog[i], "go") /\ Len(prog[i].l) # 2)
        => results[i].err # NoErr

\* C13: (if nil 1 2) is 2 and (if 0 1 2) is 1; a falsy test runs only the
\* else-form, a truthy test only the then-form, a failing test neither.
C13_IfEvaluatesOneBranch ==
    /\ prog = PIfValues
          => /\ Len(results) >= 1 => results[1] = HostOut(Int64(2), NoErr)
             /\ Len(results) >= 2 => results[2] = HostOut(Int64(1), NoErr)
    /\ prog = PIfFalse
          => /\ Global("p") = GoNil
             /\ Len(results) = 1
                   => /\ results[1] = HostOut(Sym("q"), NoErr)
                      /\ Global("q") = Int64(2)
    /\ prog = PIfTrue
          => /\ Global("q") = GoNil
             /\ Len(results) = 1
                   => /\ results[1] = HostOut(Sym("p"), NoErr)
                      /\ Global("p") = Int64(1)
    /\ prog = PIfFail
          => /\ Global("p") = GoNil /\ Global("q") = GoNil
             /\ Len(results) = 1
                   => results[1] = HostOut(GoNil, ErrNotFound)

C13_Witness ==
    /\ prog = PIfValues
    /\ results = <<HostOut(Int64(2), NoErr), HostOut(Int64(1), NoErr)>>

\* C14: a Do node runs its forms in order and returns the last result, Nil
\* for no forms; a failing form ends it with that error, the forms after it
\* are not run and the effects of the forms before it stay.
C14_DoInOrderStopsAtError ==
    /\ prog = PDoValues
          => /\ Len(results) >= 1 => results[1] = HostOut(NilV, NoErr)
             /\ Len(results) >= 2
                   => /\ results[2] = HostOut(Int64(2), NoErr)
                      /\ Global("a") = Int64(2)
    /\ prog = PDoFail
          => /\ Global("b") = GoNil
             /\ Len(results) = 1
                   => /\ results[1] = HostOut(GoNil, ErrNotFound)
                      /\ Global("a") = Int64(1)

C14_Witness ==
    /\ prog = PDoFail
    /\ Len(results) = 1
    /\ Global("a") = Int64(1) /\ Global("b") = GoNil

\* C18: a target that is not invokable ends the Invoke evaluation before
\* any argument is evaluated and without a frame; arguments are evaluated
\* left to right and the first failing one ends the evaluation: the later
\* ones are not evaluated, no frame is pushed, the target is not invoked.
FrameNames == {stack[0][i].Name : i \in DOMAIN stack[0]}
C18_InvokeOrder ==
    /\ prog = PNotInvokable
          => /\ Global("a") = GoNil
             /\ stack[0] = <<>>
             /\ Len(results) = 1
                   => results[1] = HostOut(GoNil, ErrNotInvokable)
    /\ prog = PArgFail
          => /\ Global("b") = GoNil
             /\ "ok" \notin FrameNames
             /\ \A f \in InvokeActs(0) : f.fn = Fn("ok") => f.pc # "invoke"
             /\ Len(results) = 1
                   => /\ results[1] = HostOut(GoNil, ErrNotFound)
                      /\ Global("a") = Int64(1)
    /\ prog = PArgOrder
          => /\ "ok" \in FrameNames => Global("a") = Int64(2)
             /\ Len(results) >= 1 => results[1] = HostOut(Int64(7), NoErr)
             /\ Len(results) >= 2 => results[2] = HostOut(Int64(2), NoErr)

C18_Witness ==
    /\ prog = PArgFail
    /\ Len(results) = 1
    /\ Global("a") = Int64(1)

\* C19: the Invoke node built for a call form has one argument expression
\* per element of the form, in order, the first being the analysis of the
\* call target itself.
HostNode == task[0][2].expr[1]
HostForm == prog[Len(results) + 1]
C19_ArgsIncludeTarget ==
    (/\ Len(task[0]) >= 2
     /\ task[0][2].op = "ExprEval"
     /\ HostNode.t = "Invoke")
    => /\ Len(HostNode.args) = Len(HostForm.l)
       /\ HostNode.args[1] = HostNode.target[1]
       /\ HostForm.l[1].k = "Sym"
             => HostNode.target[1] = ConstExpr(Fn(HostForm.l[1].s))
       /\ \A j \in DOMAIN HostForm.l :
             HostForm.l[j].k = "Int"
             => HostNode.args[j] = ConstExpr(HostForm.l[j])

C19_Witness ==
    /\ prog = PArgs
    /\ Len(stack[0]) = 1
    /\ stack[0][1].Args = <<Fn("ok"), Int64(1), Int64(2)>>

\* C20: a def form that is rejected never has its value form evaluated:
\* the store and the call stack stay as they were; a well-formed def has
\* its value form evaluated while the form is analysed.
C20_DefValidatedBeforeValue ==
    /\ prog \in {PBadDefCall, PBadDefCall3}
          => /\ store[genv[0]] = InitGlobals
             /\ stack[0] = <<>>
             /\ Len(results) >= 1
                   => results[1] = HostOut(GoNil, ErrInvalidDef)
             /\ Len(results) >= 2
                   => results[2] = HostOut(GoNil, ErrNotFound)
    /\ prog = PDefCall
          => /\ Global("w") # GoNil => Global("z") = Int64(3)
             /\ Len(results) = 1 => results[1] = HostOut(Sym("w"), NoErr)

C20_Witness ==
    /\ prog = PBadDefCall3
    /\ Len(results) = 2
    /\ results[2].err = ErrNotFound

\* ------------------------------------------------------- reader claims
\* the source starts with the rune c
StartsWith(c) == rd.src # <<>> /\ rd.src[1] = c
\* the whole source is one token that readOne hands to the number macro
ReadAsNumber ==
    /\ rd.phase = "readOne"
    /\ rd.src # <<>>
    /\ \A i \in DOMAIN rd.src : ~IsTerminal(rd.src[i])
    /\ \/ IsDigit(rd.src[1])
       \/ rd.src[1] \in {"+", "-"} /\ Len(rd.src) >= 2 /\ IsDigit(rd.src[2])
\* the first rd.One() of a source that starts with a quote-family trigger
QuoteRead == /\ rd.phase = "one" /\ rd.calls = 1
             /\ rd.src # <<>> /\ rd.src[1] \in {"'", "~"}

\* C15: the comment macro yields the skip signal whatever follows the ';',
\* also when the comment is ended by end of input instead of a newline.
C15_CommentAlwaysSkips ==
    (rd.phase = "readOne" /\ StartsWith(";")) => rd.err = ErrSkip

\* C16: the number macro returns either a number or an error, never both;
\* a token with r and . or with r and e fails with a number-format error,
\* and 2.3r4, 1e13e10, 1r2r3, 2r, -3r1234, 08 and 9.3.2 each fail.
C16_NumberOrError ==
    ReadAsNumber =>
        /\ \/ rd.err = NoErr /\ rd.val.k \in {"Int", "Float"}
           \/ rd.err # NoErr /\ rd.val = GoNil
        /\ (ContainsRune(rd.src, "r")
              /\ (ContainsRune(rd.src, ".") \/ ContainsRune(rd.src, "e")))
           => rd.err = ErrNumberFormat
        /\ rd.src \in BadNumbers => (rd.err # NoErr /\ rd.val = GoNil)

C16_Witness ==
    /\ ReadAsNumber
    /\ rd.src = <<"2", ".", "3", "r", "4">>
    /\ rd.err = ErrNumberFormat
    /\ rd.val = GoNil

\* C17: a quote-family macro reads exactly one following form and returns
\* the list (symbol form); ~(x 3) reads as (unquote (x 3)); if nothing but
\* white space and comments follows, it fails and returns no value.
C17_QuoteWrapsOneForm ==
    LET Quoted(f) == List(<<Sym(ExpandFunc(rd.src[1])), f.val>>)
        First1(f, rest) ==
            /\ f.err = NoErr
                 => (rd.err = NoErr /\ rd.val = Quoted(f) /\ rd.pos = f.pos)
            /\ f.err # NoErr => (rd.err # NoErr /\ rd.val = GoNil)
            /\ (rest.err = NoErr /\ rest.forms = <<>>)
                 => (rd.err = ErrEOF /\ rd.val = GoNil)
            /\ rd.src = SrcUnquote
                 => rd.val = List(<<Sym("unquote"),
                                    List(<<Sym("x"), Int64(3)>>)>>)
        Whole(f) == rd.forms = <<Quoted(f)>> \o All(rd.src, f.pos, <<>>).forms
    IN /\ QuoteRead => First1(One(rd.src, 2), All(rd.src, 2, <<>>))
       /\ (rd.phase = "all" /\ rd.err = NoErr
             /\ (StartsWith("'") \/ StartsWith("~")))
            => Whole(One(rd.src, 2))

C17_Witness ==
    /\ QuoteRead
    /\ rd.src = SrcUnquote
    /\ rd.err = NoErr
    /\ rd.val = List(<<Sym("unquote"), List(<<Sym("x"), Int64(3)>>)>>)

TypeOK == /\ nforks \in 0 .. MaxForks
          /\ rd.phase \in {"idle", "new", "readOne", "one", "all"}
          /\ crashed \in BOOLEAN

====
